---- MODULE Spec2Model ----
(***************************************************************************)
(* Slide-count / pagination engine of backend/pptx_builder.                *)
(*                                                                         *)
(* Lengths are in hundredths of an inch (FOOTER_Y = 5.3in = 530).  The      *)
(* agenda arithmetic is done on IEEE doubles as Python does it (see the    *)
(* Doubles section); the facilitation cursor never comes within 0.1 of its *)
(* limit, so its comparisons are integer comparisons on hundredths.        *)
(* Texts (titles, descriptions, idea types) are sequences of atoms: a word,*)
(* a blank " ", a colon ":" or one whole marker phrase.  Paths are         *)
(* sequences of components, each component a sequence of characters.      *)
(***************************************************************************)
EXTENDS Integers, Sequences, FiniteSets, TLC

VARIABLES
    GLOBAL_LANG,    \* constants.GLOBAL_LANG, the process-wide language flag
    facilitation_GLOBAL_LANG, \* the name GLOBAL_LANG sections/facilitation.py bound at import
    content,        \* content[b]: the lesson content passed to build b
    language,       \* language[b]: the language argument of build b
    entry,          \* entry[b]: the function build b was entered through ("idle": no call)
    output_path,    \* output_path[b]: the path argument of create_pptx
    pc,             \* pc[b]: position of build b in create_pptx / build_full_presentation
    total_slides,   \* total_slides[b]: the local total_slides of build_full_presentation
    prs,            \* prs[b]: the Presentation of build b and the slides appended to it
    facilitation_slide, \* facilitation_slide[b]: did create_facilitation_notes_slide return a slide
    called,         \* called[b]: the functions build b has entered so far
    saved,          \* saved[b]: the paths prs.save has written to
    text,           \* the argument of extract_facilitation_content (pure-function specification)
    extracted       \* <<result>> once extract_facilitation_content has returned, <<>> before

vars == <<GLOBAL_LANG, facilitation_GLOBAL_LANG, content, language, entry, output_path, pc, total_slides, prs,
          facilitation_slide, called, saved, text, extracted>>

buildVars == <<GLOBAL_LANG, facilitation_GLOBAL_LANG, content, language, entry, output_path, pc, total_slides, prs,
               facilitation_slide, called, saved>>

----------------------------------------------------------------------------
(* Bounds of the model *)

MaxSlides == 3
MaxActivities == 3
MaxIdeas == 2
MaxKeyTerms == 5
MaxReadings == 1
MaxListed == 3
MaxTextLen == 3
MaxPathDepth == 3
MaxAgendaTitles == 19
MaxAgendaActivities == 60

Builds == {1, 2}

\* prs before Presentation() has run
NoPrs == [exists |-> FALSE, slides |-> <<>>]

----------------------------------------------------------------------------
(* Generic helpers *)

Min(a, b) == IF a < b THEN a ELSE b

\* math.ceil(n / d) for n >= 0, d > 0
Ceil(n, d) == (n + d - 1) \div d

Range(s) == {s[i] : i \in 1..Len(s)}

\* s[from:] with a 0-based Python index
Drop(s, from) == SubSeq(s, from + 1, Len(s))

\* s[from:to] with 0-based Python indices
Slice(s, from, to) == SubSeq(s, from + 1, to)

RECURSIVE Flatten(_)
Flatten(ss) == IF ss = <<>> THEN <<>> ELSE Head(ss) \o Flatten(Tail(ss))

RECURSIVE SumSeq(_)
SumSeq(s) == IF s = <<>> THEN 0 ELSE Head(s) + SumSeq(Tail(s))

IsPrefix(p, s) == Len(p) <= Len(s) /\ SubSeq(s, 1, Len(p)) = p

\* index of the first occurrence of atom a in s, 0 when absent
RECURSIVE IndexFrom(_, _, _)
IndexFrom(s, a, i) ==
    IF i > Len(s) THEN 0
    ELSE IF s[i] = a THEN i
    ELSE IndexFrom(s, a, i + 1)

Find(s, a) == IndexFrom(s, a, 1)

Contains(s, a) == \E i \in 1..Len(s) : s[i] = a

----------------------------------------------------------------------------
(* Text utilities: utils.py *)

IsBlank(a) == a = " "

RECURSIVE LStrip(_)
LStrip(s) == IF s # <<>> /\ IsBlank(Head(s)) THEN LStrip(Tail(s)) ELSE s

RECURSIVE RStrip(_)
RStrip(s) ==
    IF s # <<>> /\ IsBlank(s[Len(s)]) THEN RStrip(SubSeq(s, 1, Len(s) - 1)) ELSE s

\* str.strip()
Strip(s) == RStrip(LStrip(s))

\* str.lower() of one word
Lower(w) ==
    CASE w = "Slide" -> "slide"
      [] w = "SLIDE" -> "slide"
      [] w = "Quiz" -> "quiz"
      [] w = "Discussion" -> "discussion"
      [] OTHER -> w

IsDigits(w) == w \in {"1", "2"}

\* str.split(): the maximal runs of non-blank atoms
RECURSIVE SplitWords(_, _)
SplitWords(s, cur) ==
    IF s = <<>> THEN (IF cur = <<>> THEN <<>> ELSE <<cur>>)
    ELSE IF IsBlank(Head(s))
         THEN (IF cur = <<>> THEN <<>> ELSE <<cur>>) \o SplitWords(Tail(s), <<>>)
         ELSE SplitWords(Tail(s), Append(cur, Head(s)))

\* " ".join(parts)
RECURSIVE JoinWords(_)
JoinWords(parts) ==
    IF parts = <<>> THEN <<>>
    ELSE IF Len(parts) = 1 THEN Head(parts)
    ELSE Head(parts) \o <<" ">> \o JoinWords(Tail(parts))

\* part.replace(":", "")
RECURSIVE RemoveColons(_)
RemoveColons(w) ==
    IF w = <<>> THEN <<>>
    ELSE IF Head(w) = ":" THEN RemoveColons(Tail(w))
    ELSE <<Head(w)>> \o RemoveColons(Tail(w))

clean_slide_title(title) ==
    IF Contains(title, ":")
    THEN Strip(Drop(title, Find(title, ":")))
    ELSE LET parts == SplitWords(title, <<>>) IN
         IF /\ Len(parts) > 1
            /\ Len(parts[1]) = 1 /\ Lower(parts[1][1]) = "slide"
            /\ LET d == RemoveColons(parts[2]) IN
                  d # <<>> /\ \A i \in 1..Len(d) : IsDigits(d[i])
         THEN Strip(JoinWords(Drop(parts, 2)))
         ELSE Strip(title)

facilitation_patterns ==
    << "Facilitation notes:", "Facilitation Notes:", "FACILITATION NOTES:",
       "Facilitator notes:", "Facilitator guidance:", "Facilitation tip:",
       "Catatan fasilitasi:", "Catatan Fasilitasi:", "Panduan Fasilitator:" >>

learning_patterns ==
    << "Learning Objective:", "Learning Objectives:", "LEARNING OBJECTIVES:",
       "Success criteria:", "Tujuan Pembelajaran:", "Kriteria keberhasilan:" >>

\* faulty variant of FirstPattern: the pattern whose occurrence comes first in the text
FirstPattern_textual(patterns, s, k) ==
    IF \A j \in 1..Len(patterns) : ~Contains(s, patterns[j]) THEN 0
    ELSE CHOOSE j \in 1..Len(patterns) :
            /\ Contains(s, patterns[j])
            /\ \A i \in 1..Len(patterns) :
                  Contains(s, patterns[i]) => Find(s, patterns[j]) <= Find(s, patterns[i])

\* the first pattern of the list, in list order, that occurs in s (0: none)
RECURSIVE FirstPattern(_, _, _)
FirstPattern(patterns, s, k) ==
    IF k > Len(patterns) THEN 0
    ELSE IF Contains(s, patterns[k]) THEN k
    ELSE FirstPattern(patterns, s, k + 1)

\* text.split(pattern, 1): the part before and the part after the first occurrence
SplitOnce(s, pattern) ==
    LET p == Find(s, pattern) IN <<SubSeq(s, 1, p - 1), Drop(s, p)>>

\* faulty variant of extract_facilitation_content: the learning-objective markers
\* are always searched in the whole text
extract_facilitation_content_whole_text(txt) ==
    LET fk == FirstPattern(facilitation_patterns, txt, 1)
        fparts == SplitOnce(txt, facilitation_patterns[fk])
        desc1 == IF fk = 0 THEN txt ELSE Strip(fparts[1])
        notes == IF fk = 0 THEN <<>> ELSE Strip(fparts[2])
        lk == FirstPattern(learning_patterns, txt, 1)
        lparts == SplitOnce(txt, learning_patterns[lk])
    IN  [ clean_description |-> IF lk = 0 THEN desc1 ELSE Strip(lparts[1]),
          facilitation_notes |-> notes,
          learning_objectives |-> IF lk = 0 THEN <<>> ELSE Strip(lparts[2]) ]

extract_facilitation_content(txt) ==
    LET fk == FirstPattern(facilitation_patterns, txt, 1)
        fparts == SplitOnce(txt, facilitation_patterns[fk])
        desc1 == IF fk = 0 THEN txt ELSE Strip(fparts[1])
        notes == IF fk = 0 THEN <<>> ELSE Strip(fparts[2])
        source == IF notes # <<>> THEN desc1 ELSE txt
        lk == FirstPattern(learning_patterns, source, 1)
        lparts == SplitOnce(source, learning_patterns[lk])
    IN  [ clean_description |-> IF lk = 0 THEN desc1 ELSE Strip(lparts[1]),
          facilitation_notes |-> notes,
          learning_objectives |-> IF lk = 0 THEN <<>> ELSE Strip(lparts[2]) ]

----------------------------------------------------------------------------
(* Layout constants: constants.py / generate_pptx.py *)

FOOTER_Y == 530

section_height == 50

item_height == 35

terms_per_slide == 4

----------------------------------------------------------------------------
(* Doubles: the float arithmetic of slide_counter.py and sections/agenda.py *)

\* A double x between 0.25 and 256 is the pair (k, j) with
\* x = k / 100 + j / (25 * 2^54): k hundredths plus the rounding error j.
Double(k, j) == [k |-> k, j |-> j]

RECURSIVE Pow2(_)
Pow2(n) == IF n = 0 THEN 1 ELSE 2 * Pow2(n - 1)

\* 2^n modulo 25
RECURSIVE Pow2Mod25(_)
Pow2Mod25(n) == IF n = 0 THEN 1 ELSE (2 * Pow2Mod25(n - 1)) % 25

\* one unit in the last place of a double in [2^e, 2^(e+1)), in units of
\* 1 / (25 * 2^54); it is also 2^e in hundredths
UlpTable == [e \in -2..8 |-> 25 * Pow2(e + 2)]

Ulp(e) == UlpTable[e]

\* 2^52 modulo 2 * Ulp(e), the weight of one hundredth in the last two places
HundredthTable == [e \in -2..7 |-> Pow2(e + 3) * Pow2Mod25(49 - e)]

\* the binary exponent of the real number (k, j)
Exponent(k, j) ==
    CHOOSE e \in -2..7 :
        /\ k > Ulp(e) \/ (k = Ulp(e) /\ j >= 0)
        /\ ~(k > Ulp(e + 1) \/ (k = Ulp(e + 1) /\ j >= 0))

\* round-to-nearest, ties-to-even, of the real number (k, j) to a double
RoundDouble(k, j) ==
    IF k = 0 /\ j = 0 THEN Double(0, 0)
    ELSE LET e == Exponent(k, j)
             M == Ulp(e)
             r2 == (k * HundredthTable[e] + j) % (2 * M)
             r == r2 % M
             odd == r2 >= M
         IN  IF 2 * r < M THEN Double(k, j - r)
             ELSE IF 2 * r > M THEN Double(k, j + M - r)
             ELSE IF odd THEN Double(k, j + M - r)
             ELSE Double(k, j - r)

\* the float literal of k hundredths (0.5 is Float(50))
Float(k) == RoundDouble(k, 0)

FAdd(x, y) == RoundDouble(x.k + y.k, x.j + y.j)

\* x - y.  A difference below 2^-2 of two doubles that are at least 2^-1 is a
\* multiple of their unit in the last place and is itself a double: it is exact
FSub(x, y) ==
    IF x.k - y.k < 25 \/ (x.k - y.k = 25 /\ x.j - y.j < 0)
    THEN Double(x.k - y.k, x.j - y.j)
    ELSE RoundDouble(x.k - y.k, x.j - y.j)

\* n * x for an int n
FMul(n, x) == RoundDouble(n * x.k, n * x.j)

FGreater(x, y) == x.k > y.k \/ (x.k = y.k /\ x.j > y.j)

FLess(x, y) == FGreater(y, x)

\* the float values of the layout constants
section_height_float == Float(section_height)

item_height_float == Float(item_height)

\* available_height = FOOTER_Y - 1.2
available_height == FSub(Float(FOOTER_Y), Float(120))

\* floor(log2(n)) for n >= 1
RECURSIVE Log2(_)
Log2(n) == IF n < 2 THEN 0 ELSE 1 + Log2(n \div 2)

\* math.ceil(a / d): the quotient is rounded to a double before the ceiling, so
\* an exact multiple n * d gives n + 1 when a exceeds n * d by more than half
\* a unit in the last place of n
CeilDiv(a, d) ==
    LET n == (a.k + d.k - 1) \div d.k
        excess == a.j - n * d.j
        half_ulp == d.k * Pow2(Log2(n))
    IN  IF a.k < n * d.k THEN n
        ELSE IF 2 * excess < half_ulp \/ (2 * excess = half_ulp /\ d.j >= 0) THEN n
        ELSE n + 1

\* int(a / d) for a >= 0: the quotient is rounded to a double before the
\* truncation, so a quotient below the integer m by at most half a unit in the
\* last place gives m
FloorDiv(a, d) ==
    LET m == a.k \div d.k
        deficit == m * d.j - a.j
        e == IF m = Pow2(Log2(m)) THEN Log2(m) - 1 ELSE Log2(m)
        ulp4 == d.k * Pow2(e + 1)
    IN  IF a.k % d.k # 0 \/ m = 0 \/ deficit <= 0 THEN m
        ELSE IF 4 * deficit < ulp4 \/ (4 * deficit = ulp4 /\ d.j >= 0) THEN m
        ELSE m - 1

readings_per_slide == 2

\* constants.LABELS[lang][key]: a label is identified by its table and its key
LABELS(lang, key) == <<lang, key>>

\* localization.t(key), read while the flag holds lang
t(lang, key) == LABELS(lang, key)

\* set_language: lang = (lang or "en").lower(); "id" if lang == "id" else "en"
NormalizedLanguage(lang) == IF lang \in {"id", "ID", "Id"} THEN "id" ELSE "en"

----------------------------------------------------------------------------
(* Content helpers *)

\* "quiz" in idea.get("type", "").lower()
IsQuiz(idea) == \E i \in 1..Len(idea.type) : Lower(idea.type[i]) = "quiz"

\* "discussion" in idea.get("type", "").lower()
IsDiscussion(idea) == \E i \in 1..Len(idea.type) : Lower(idea.type[i]) = "discussion"

\* len([q for q in idea.get("exampleQuestions", []) if q.get("options")])
RECURSIVE QuestionsWithOptions(_)
QuestionsWithOptions(questions) ==
    IF questions = <<>> THEN 0
    ELSE (IF Head(questions).options # <<>> THEN 1 ELSE 0)
         + QuestionsWithOptions(Tail(questions))

\* the quiz_count / discussion_count loop shared by the counter and the agenda
\* builder: an idea is counted as quiz, else as discussion (if / elif)
RECURSIVE KnowledgeCounts(_, _, _)
KnowledgeCounts(ideas, quiz_count, discussion_count) ==
    IF ideas = <<>> THEN [quiz_count |-> quiz_count, discussion_count |-> discussion_count]
    ELSE LET idea == Head(ideas) IN
         IF IsQuiz(idea)
         THEN KnowledgeCounts(Tail(ideas),
                  quiz_count + QuestionsWithOptions(idea.exampleQuestions),
                  discussion_count)
         ELSE IF IsDiscussion(idea)
         THEN KnowledgeCounts(Tail(ideas), quiz_count,
                  discussion_count + Len(idea.exampleQuestions))
         ELSE KnowledgeCounts(Tail(ideas), quiz_count, discussion_count)

\* quiz_count of the section builders: 2 slides per quiz question with options
RECURSIVE QuizSlideCount(_)
QuizSlideCount(ideas) ==
    IF ideas = <<>> THEN 0
    ELSE (IF IsQuiz(Head(ideas))
          THEN QuestionsWithOptions(Head(ideas).exampleQuestions) * 2 ELSE 0)
         + QuizSlideCount(Tail(ideas))

\* discussion_count of the section builders: 2 slides per discussion question
RECURSIVE DiscussionSlideCount(_)
DiscussionSlideCount(ideas) ==
    IF ideas = <<>> THEN 0
    ELSE (IF IsDiscussion(Head(ideas))
          THEN Len(Head(ideas).exampleQuestions) * 2 ELSE 0)
         + DiscussionSlideCount(Tail(ideas))

\* content_slides of the counter: titles that are non-empty before and after cleaning
RECURSIVE CounterContentTitles(_)
CounterContentTitles(slides) ==
    IF slides = <<>> THEN <<>>
    ELSE LET raw == Head(slides).title
             title == clean_slide_title(raw)
         IN  (IF raw # <<>> /\ title # <<>> THEN <<title>> ELSE <<>>)
             \o CounterContentTitles(Tail(slides))

\* content_slides of the agenda builder: titles that are non-empty after cleaning
RECURSIVE AgendaContentTitles(_)
AgendaContentTitles(slides) ==
    IF slides = <<>> THEN <<>>
    ELSE LET title == clean_slide_title(Head(slides).title)
         IN  (IF title # <<>> THEN <<title>> ELSE <<>>)
             \o AgendaContentTitles(Tail(slides))

ActivityTitles(activities) == [i \in 1..Len(activities) |-> activities[i].title]

\* the label keys of the agenda
AgendaKeys ==
    { "introduction", "learningOutcomes", "keyTerms", "mainContent", "activities",
      "quizQuestions", "discussionQuestions", "testYourKnowledge",
      "additionalResources", "furtherReadings" }

\* the agenda section list, given the label function and the content-title list
AgendaItems(c, label, content_titles) ==
    LET counts == KnowledgeCounts(c.assessmentIdeas, 0, 0)
        knowledge_items ==
            (IF counts.quiz_count > 0
             THEN <<label["quizQuestions"] \o <<ToString(counts.quiz_count)>> >>
             ELSE <<>>)
            \o (IF counts.discussion_count > 0
                THEN <<label["discussionQuestions"] \o <<ToString(counts.discussion_count)>> >>
                ELSE <<>>)
    IN  << [title |-> label["introduction"],
            items |-> <<label["learningOutcomes"], label["keyTerms"]>>] >>
        \o (IF content_titles # <<>>
            THEN << [title |-> label["mainContent"], items |-> content_titles] >>
            ELSE <<>>)
        \o (IF c.activities # <<>>
            THEN << [title |-> label["activities"], items |-> ActivityTitles(c.activities)] >>
            ELSE <<>>)
        \o (IF knowledge_items # <<>>
            THEN << [title |-> label["testYourKnowledge"], items |-> knowledge_items] >>
            ELSE <<>>)
        \o (IF c.furtherReadings # <<>>
            THEN << [title |-> label["additionalResources"],
                     items |-> <<label["furtherReadings"]>>] >>
            ELSE <<>>)

\* the string literals of slide_counter.py ("Introduction", "Main Content", ...)
Literal(key) == <<"literal", key>>

\* agenda_items as slide_counter.calculate_total_slides derives it
CounterAgendaItems(c) ==
    AgendaItems(c, [key \in AgendaKeys |-> Literal(key)], CounterContentTitles(c.slides))

\* agenda_items as sections/agenda.create_agenda_slide derives it under flag lang
BuilderAgendaItems(c, lang) ==
    AgendaItems(c, [key \in AgendaKeys |-> t(lang, key)], AgendaContentTitles(c.slides))

\* slide_counter.py: total_height_needed += section_height, then
\* total_height_needed += len(section["items"]) * item_height, per section
RECURSIVE CounterTotalHeightNeeded(_, _)
CounterTotalHeightNeeded(agenda_items, total_height_needed) ==
    IF agenda_items = <<>> THEN total_height_needed
    ELSE CounterTotalHeightNeeded(Tail(agenda_items),
             FAdd(FAdd(total_height_needed, section_height_float),
                  FMul(Len(Head(agenda_items).items), item_height_float)))

\* sections/agenda.py: total_height_needed += section_height
\* + len(section["items"]) * item_height, per section
RECURSIVE TotalHeightNeeded(_, _)
TotalHeightNeeded(agenda_items, total_height_needed) ==
    IF agenda_items = <<>> THEN total_height_needed
    ELSE TotalHeightNeeded(Tail(agenda_items),
             FAdd(total_height_needed,
                  FAdd(section_height_float,
                       FMul(Len(Head(agenda_items).items), item_height_float))))

\* slides_needed = math.ceil(total_height_needed / (FOOTER_Y - 1.2))
AgendaSlidesNeeded(total_height_needed) ==
    CeilDiv(total_height_needed, available_height)

\* the three marker phrases of the counter's presence check
counter_patterns == <<"Facilitation notes:", "Facilitation Notes:", "Facilitator notes:">>

has_facilitation_notes(c) ==
    \E i \in 1..Len(c.activities) :
        \E k \in 1..Len(counter_patterns) :
            Contains(c.activities[i].description, counter_patterns[k])

\* faulty variant of CounterKeyTermSlides: the floor the section offsets use
CounterKeyTermSlides_floor(c) == Len(c.keyTerms) \div terms_per_slide

\* the key-terms term of the total: (len(key_terms) + 4 - 1) // 4 if key_terms
CounterKeyTermSlides(c) ==
    IF c.keyTerms # <<>>
    THEN (Len(c.keyTerms) + terms_per_slide - 1) \div terms_per_slide ELSE 0

\* slides_needed of calculate_total_slides: the agenda slides it adds
CounterSlidesNeeded(c) ==
    AgendaSlidesNeeded(CounterTotalHeightNeeded(CounterAgendaItems(c), Float(0)))

calculate_total_slides(c) ==
    LET slides_needed == CounterSlidesNeeded(c)
        key_term_slides == CounterKeyTermSlides(c)
        reading_slides ==
            IF c.furtherReadings # <<>>
            THEN (Len(c.furtherReadings) + readings_per_slide - 1) \div readings_per_slide
            ELSE 0
    IN  1                                          \* title
        + slides_needed
        + 1                                        \* learning outcomes
        + key_term_slides
        + Len(c.slides)
        + Len(c.activities) * 2
        + QuizSlideCount(c.assessmentIdeas)
        + DiscussionSlideCount(c.assessmentIdeas)
        + reading_slides
        + 1                                        \* closing
        + (IF has_facilitation_notes(c) THEN 1 ELSE 0)

----------------------------------------------------------------------------
(* Slides *)

\* One appended slide.  kind: the section; has_footer/num: the footer's page
\* number; src: 0-based index of the source entry or of the slide within its
\* section; sub: 0-based index of the question within its idea; body: what the slide holds; t_lang: the label table t() read for
\* this slide ("none": no t() call); heading_lang: the table of its heading
\* label ("none": the heading is content text).
Slide(kind, has_footer, num, src, sub, body, t_lang, heading_lang) ==
    [kind |-> kind, has_footer |-> has_footer, num |-> num, src |-> src,
     sub |-> sub, body |-> body, t_lang |-> t_lang, heading_lang |-> heading_lang]

\* the default of the language parameter: build_full_presentation(content, language="en")
DEFAULT_LANG == "en"

(* sections/title.py *)
title_slides(c, lang) ==
    << Slide("title", FALSE, 0, 0, 0, <<>>, lang, "none") >>

(* sections/agenda.py: the greedy per-slide fill *)

max_y == FSub(Float(FOOTER_Y), Float(30))

AgendaHeader(sec) == [header |-> TRUE, section |-> sec, item |-> 0]

AgendaItem(sec, item) == [header |-> FALSE, section |-> sec, item |-> item]

\* for idx, item in enumerate(section["items"][start:]): place items while they fit
RECURSIVE PlaceItems(_, _, _, _, _, _)
PlaceItems(sec, n_items, start, idx, y, body) ==
    IF start + idx >= n_items
    THEN [broke |-> FALSE, idx |-> idx, y |-> y, body |-> body]
    ELSE IF FGreater(FAdd(y, item_height_float), max_y)
    THEN [broke |-> TRUE, idx |-> idx, y |-> y, body |-> body]
    ELSE PlaceItems(sec, n_items, start, idx + 1, FAdd(y, item_height_float),
                    Append(body, AgendaItem(sec, start + idx)))

\* while current_section_idx < len(agenda_items) and y < max_y: ...
RECURSIVE FillAgendaSlide(_, _, _, _, _, _, _)
FillAgendaSlide(agenda_items, current_section_idx, current_item_start,
                section_start_idx, item_start_idx, y, body) ==
    IF ~(current_section_idx < Len(agenda_items) /\ FLess(y, max_y))
    THEN [body |-> body, section_start_idx |-> section_start_idx,
          item_start_idx |-> item_start_idx]
    ELSE IF FGreater(FAdd(y, section_height_float), max_y)
    THEN [body |-> body, section_start_idx |-> section_start_idx,
          item_start_idx |-> item_start_idx]
    ELSE LET r == PlaceItems(current_section_idx,
                             Len(agenda_items[current_section_idx + 1].items),
                             current_item_start, 0, FAdd(y, section_height_float),
                             Append(body, AgendaHeader(current_section_idx)))
         IN  IF r.broke
             THEN [body |-> r.body, section_start_idx |-> section_start_idx,
                   item_start_idx |-> current_item_start + r.idx]
             ELSE FillAgendaSlide(agenda_items, current_section_idx + 1, 0,
                                  current_section_idx + 1, 0, r.y, r.body)

\* for slide_idx in range(slides_needed): the bodies of the agenda slides
RECURSIVE AgendaBodies(_, _, _, _, _)
AgendaBodies(agenda_items, slide_idx, slides_needed, section_start_idx, item_start_idx) ==
    IF slide_idx >= slides_needed THEN <<>>
    ELSE LET r == FillAgendaSlide(agenda_items, section_start_idx, item_start_idx,
                                  section_start_idx, item_start_idx, Float(110), <<>>)
         IN  <<r.body>> \o AgendaBodies(agenda_items, slide_idx + 1, slides_needed,
                                        r.section_start_idx, r.item_start_idx)

\* faulty variant of agenda_slides: the fill position is not carried over, every
\* agenda slide is filled from the first section again
agenda_slides_restart(c, lang) ==
    LET agenda_items == BuilderAgendaItems(c, lang)
        slides_needed == AgendaSlidesNeeded(TotalHeightNeeded(agenda_items, Float(0)))
        body == FillAgendaSlide(agenda_items, 0, 0, 0, 0, Float(110), <<>>).body
    IN  [i \in 1..slides_needed |->
            Slide("agenda", TRUE, (i - 1) + 2, i - 1, 0, body, lang, lang)]

agenda_slides(c, lang) ==
    LET agenda_items == BuilderAgendaItems(c, lang)
        slides_needed == AgendaSlidesNeeded(TotalHeightNeeded(agenda_items, Float(0)))
        bodies == AgendaBodies(agenda_items, 0, slides_needed, 0, 0)
    IN  [i \in 1..slides_needed |->
            Slide("agenda", TRUE, (i - 1) + 2, i - 1, 0, bodies[i], lang, lang)]

(* generate_pptx.py: the original create_agenda_slide *)

\* agenda_items of the original: the builder's section list under literal titles
OriginalAgendaItems(c) ==
    AgendaItems(c, [key \in AgendaKeys |-> Literal(key)], AgendaContentTitles(c.slides))

\* slides_needed of the original: the height is summed with two additions per
\* section, as in slide_counter.py
OriginalSlidesNeeded(c) ==
    AgendaSlidesNeeded(CounterTotalHeightNeeded(OriginalAgendaItems(c), Float(0)))

\* for section_idx, section in enumerate(agenda_items[section_start_idx:], ...) of
\* the skip-through: whole sections are taken off available_height, a section that
\* does not fit advances item_start_idx by int(available_height / item_height)
RECURSIVE OriginalSkipSections(_, _, _, _)
OriginalSkipSections(agenda_items, section_start_idx, item_start_idx, avail) ==
    IF section_start_idx >= Len(agenda_items)
    THEN [section_start_idx |-> section_start_idx, item_start_idx |-> item_start_idx]
    ELSE LET n_items == Len(agenda_items[section_start_idx + 1].items)
             remaining == IF item_start_idx < n_items THEN n_items - item_start_idx ELSE 0
             items_height == FMul(remaining, item_height_float)
             total_section_height == FAdd(section_height_float, items_height)
             items_that_fit == FloorDiv(avail, item_height_float)
         IN  IF ~FGreater(total_section_height, avail)
             THEN OriginalSkipSections(agenda_items, section_start_idx + 1, 0,
                                       FSub(avail, total_section_height))
             ELSE IF items_that_fit <= 0
             THEN [section_start_idx |-> section_start_idx,
                   item_start_idx |-> item_start_idx]
             ELSE [section_start_idx |-> section_start_idx,
                   item_start_idx |-> item_start_idx + items_that_fit]

\* for slide_content_idx in range(slide_idx): one skip-through per earlier slide,
\* each with available_height = FOOTER_Y - 1.2
RECURSIVE OriginalSkipSlides(_, _, _, _)
OriginalSkipSlides(agenda_items, n, section_start_idx, item_start_idx) ==
    IF n = 0
    THEN [section_start_idx |-> section_start_idx, item_start_idx |-> item_start_idx]
    ELSE LET r == OriginalSkipSections(agenda_items, section_start_idx, item_start_idx,
                                       available_height)
         IN  OriginalSkipSlides(agenda_items, n - 1, r.section_start_idx, r.item_start_idx)

\* for item_idx, item in enumerate(section["items"][item_start_idx:]): item_idx is
\* the index of the item the loop stopped at, or of the last item placed
RECURSIVE OriginalPlaceItems(_, _, _, _, _, _)
OriginalPlaceItems(sec, n_items, item_start_idx, item_idx, y, body) ==
    IF FGreater(FAdd(y, item_height_float), max_y)
    THEN [item_idx |-> item_idx, y |-> y, body |-> body]
    ELSE LET placed == Append(body, AgendaItem(sec, item_start_idx + item_idx)) IN
         IF item_start_idx + item_idx + 1 >= n_items
         THEN [item_idx |-> item_idx, y |-> FAdd(y, item_height_float), body |-> placed]
         ELSE OriginalPlaceItems(sec, n_items, item_start_idx, item_idx + 1,
                                 FAdd(y, item_height_float), placed)

\* the rendering loop of one slide.  With an empty slice item_idx keeps the value
\* of an earlier loop (>= 0; the first section of the first slide always sets it)
\* and item_start_idx >= len(items), so the section counts as displayed
RECURSIVE OriginalRender(_, _, _, _, _)
OriginalRender(agenda_items, section_start_idx, item_start_idx, y, body) ==
    IF section_start_idx >= Len(agenda_items) THEN body
    ELSE IF FGreater(FAdd(y, section_height_float), max_y) THEN body
    ELSE LET n_items == Len(agenda_items[section_start_idx + 1].items)
             header == Append(body, AgendaHeader(section_start_idx))
             y_items == FAdd(y, section_height_float)
         IN  IF item_start_idx >= n_items
             THEN OriginalRender(agenda_items, section_start_idx + 1, 0, y_items, header)
             ELSE LET r == OriginalPlaceItems(section_start_idx, n_items, item_start_idx,
                                              0, y_items, header)
                  IN  IF r.item_idx + item_start_idx >= n_items - 1
                      THEN OriginalRender(agenda_items, section_start_idx + 1, 0,
                                          r.y, r.body)
                      ELSE r.body

\* generate_pptx.create_agenda_slide: every slide finds its start by skipping
\* through the earlier slides, then renders from there
generate_pptx_create_agenda_slide(c) ==
    LET agenda_items == OriginalAgendaItems(c)
        slides_needed == OriginalSlidesNeeded(c)
    IN  [i \in 1..slides_needed |->
            LET start == OriginalSkipSlides(agenda_items, i - 1, 0, 0) IN
            Slide("agenda", TRUE, (i - 1) + 2, i - 1, 0,
                  OriginalRender(agenda_items, start.section_start_idx,
                                 start.item_start_idx, Float(110), <<>>),
                  "none", "none")]

(* sections/learning_outcomes.py *)
learning_outcomes_slides(c, lang) ==
    << Slide("learning_outcomes", TRUE, 1, 0, 0, <<>>, lang, lang) >>

(* sections/key_terms.py *)
\* faulty variant of key_terms_slides: the slice of each slide ends one term early
key_terms_slides_short(c, lang) ==
    LET key_terms == c.keyTerms
        total_terms == Len(key_terms)
        slides_needed == (total_terms + terms_per_slide - 1) \div terms_per_slide
    IN  IF key_terms = <<>> THEN <<>>
        ELSE [i \in 1..slides_needed |->
                LET slide_idx == i - 1
                    start_idx == slide_idx * terms_per_slide
                    end_idx == Min(start_idx + terms_per_slide - 1, total_terms)
                IN  Slide("key_terms", TRUE, slide_idx + 2, slide_idx, 0,
                          Slice(key_terms, start_idx, end_idx), lang, lang)]

key_terms_slides(c, lang) ==
    LET key_terms == c.keyTerms
        total_terms == Len(key_terms)
        slides_needed == (total_terms + terms_per_slide - 1) \div terms_per_slide
    IN  IF key_terms = <<>> THEN <<>>
        ELSE [i \in 1..slides_needed |->
                LET slide_idx == i - 1
                    start_idx == slide_idx * terms_per_slide
                    end_idx == Min(start_idx + terms_per_slide, total_terms)
                IN  Slide("key_terms", TRUE, slide_idx + 2, slide_idx, 0,
                          Slice(key_terms, start_idx, end_idx), lang, lang)]

(* sections/content.py *)
RECURSIVE ContentLoop(_, _, _)
ContentLoop(c, slide_idx, slide_count_offset) ==
    IF slide_idx >= Len(c.slides) THEN <<>>
    ELSE IF slide_idx = 1 THEN ContentLoop(c, slide_idx + 1, slide_count_offset)
    ELSE LET adjusted_idx == IF slide_idx < 1 THEN slide_idx ELSE slide_idx - 1
             slide_number == slide_count_offset + adjusted_idx + 1
         IN  << Slide("content", TRUE, slide_number, slide_idx, 0, <<>>, "none", "none") >>
             \o ContentLoop(c, slide_idx + 1, slide_count_offset)

\* faulty variant of content_slides: the footer uses slide_idx, not adjusted_idx
content_slides_unadjusted(c, lang) ==
    LET slide_count_offset == 2 + Len(c.keyTerms) \div 4 IN
    SelectSeq([i \in 1..Len(c.slides) |->
                  Slide("content", TRUE, slide_count_offset + (i - 1) + 1, i - 1, 0, <<>>,
                        "none", "none")],
              LAMBDA sl : sl.src # 1)

\* faulty variant of content_slides: the enumeration of the slides starts at 1
content_slides_from_one(c, lang) ==
    IF c.slides = <<>> THEN <<>>
    ELSE ContentLoop(c, 1, 2 + Len(c.keyTerms) \div 4)

content_slides(c, lang) ==
    IF c.slides = <<>> THEN <<>>
    ELSE ContentLoop(c, 0, 2 + Len(c.keyTerms) \div 4)

\* len([s for i, s in enumerate(content.get("slides", [])) if i != 1])
SlidesExceptSecond(c) == Cardinality({i \in 0..(Len(c.slides) - 1) : i # 1})

(* sections/activities.py *)
\* faulty variant of activities_offset: the skipped second content slide is counted
activities_offset_all_slides(c) ==
    2 + Len(c.keyTerms) \div 4 - 1 + Len(c.slides) + 1

activities_offset(c) ==
    2 + Len(c.keyTerms) \div 4 - 1 + SlidesExceptSecond(c) + 1

\* faulty variant of activity_slides: the materials slide repeats the main slide's number
activity_slides_same_number(c, lang) ==
    LET slide_count_offset == activities_offset(c) IN
    Flatten([i \in 1..Len(c.activities) |->
        LET act_idx == i - 1
            main_num == slide_count_offset + (act_idx * 2) + 1
        IN  << Slide("activity_main", TRUE, main_num, act_idx, 0, <<>>, lang, lang),
               Slide("activity_materials", TRUE, main_num, act_idx, 0, <<>>, lang, lang) >>])

activity_slides(c, lang) ==
    LET slide_count_offset == activities_offset(c) IN
    Flatten([i \in 1..Len(c.activities) |->
        LET act_idx == i - 1
            main_num == slide_count_offset + (act_idx * 2) + 1
            materials_num == slide_count_offset + (act_idx * 2) + 2
        IN  << Slide("activity_main", TRUE, main_num, act_idx, 0, <<>>, lang, lang),
               Slide("activity_materials", TRUE, materials_num, act_idx, 0, <<>>, lang, lang) >>])

\* the offset shared by the quiz, discussion and readings builders
assessment_offset(c) ==
    2 + Len(c.keyTerms) \div 4 - 1 + SlidesExceptSecond(c)
      + Len(c.activities) * 2 + 1

(* sections/quiz.py *)
\* for q_idx, question in enumerate(idea.get("exampleQuestions", [])) of one quiz idea
RECURSIVE QuizQuestionLoop(_, _, _, _, _, _)
QuizQuestionLoop(questions, idea_idx, q_idx, slide_count_offset, quiz_slide_count, lang) ==
    IF q_idx >= Len(questions)
    THEN [slides |-> <<>>, quiz_slide_count |-> quiz_slide_count]
    ELSE IF questions[q_idx + 1].options = <<>>
    THEN QuizQuestionLoop(questions, idea_idx, q_idx + 1, slide_count_offset,
                          quiz_slide_count, lang)
    ELSE LET q_num == slide_count_offset + (quiz_slide_count + 1)
             a_num == slide_count_offset + (quiz_slide_count + 2)
             rest == QuizQuestionLoop(questions, idea_idx, q_idx + 1, slide_count_offset,
                                      quiz_slide_count + 2, lang)
         IN  [slides |-> << Slide("quiz_question", TRUE, q_num, idea_idx, q_idx, <<>>, lang, lang),
                            Slide("quiz_answer", TRUE, a_num, idea_idx, q_idx, <<>>, lang, lang) >>
                         \o rest.slides,
              quiz_slide_count |-> rest.quiz_slide_count]

\* for idea in assessment_ideas
RECURSIVE QuizIdeaLoop(_, _, _, _, _)
QuizIdeaLoop(ideas, idea_idx, slide_count_offset, quiz_slide_count, lang) ==
    IF idea_idx >= Len(ideas) THEN <<>>
    ELSE IF ~IsQuiz(ideas[idea_idx + 1])
    THEN QuizIdeaLoop(ideas, idea_idx + 1, slide_count_offset, quiz_slide_count, lang)
    ELSE LET r == QuizQuestionLoop(ideas[idea_idx + 1].exampleQuestions, idea_idx, 0,
                                   slide_count_offset, quiz_slide_count, lang)
         IN  r.slides \o QuizIdeaLoop(ideas, idea_idx + 1, slide_count_offset,
                                      r.quiz_slide_count, lang)

quiz_slides(c, lang) ==
    QuizIdeaLoop(c.assessmentIdeas, 0, assessment_offset(c), 0, lang)

(* sections/discussion.py *)
RECURSIVE DiscussionQuestionLoop(_, _, _, _, _, _)
DiscussionQuestionLoop(questions, idea_idx, q_idx, base, discussion_slide_count, lang) ==
    IF q_idx >= Len(questions) THEN <<>>
    ELSE LET q_num == base + (discussion_slide_count + 1)
             a_num == base + (discussion_slide_count + 2)
         IN  << Slide("discussion_question", TRUE, q_num, idea_idx, q_idx, <<>>, lang, lang),
                Slide("discussion_guidance", TRUE, a_num, idea_idx, q_idx, <<>>, lang, lang) >>
             \o DiscussionQuestionLoop(questions, idea_idx, q_idx + 1, base,
                                       discussion_slide_count + 2, lang)

RECURSIVE DiscussionIdeaLoop(_, _, _, _, _)
DiscussionIdeaLoop(ideas, idea_idx, base, discussion_slide_count, lang) ==
    IF idea_idx >= Len(ideas) THEN <<>>
    ELSE IF ~IsDiscussion(ideas[idea_idx + 1])
    THEN DiscussionIdeaLoop(ideas, idea_idx + 1, base, discussion_slide_count, lang)
    ELSE LET questions == ideas[idea_idx + 1].exampleQuestions IN
         DiscussionQuestionLoop(questions, idea_idx, 0, base, discussion_slide_count, lang)
         \o DiscussionIdeaLoop(ideas, idea_idx + 1, base,
                               discussion_slide_count + 2 * Len(questions), lang)

\* faulty variant of discussion_slides: questions without options are dropped,
\* as the quiz section does
discussion_slides_options_only(c, lang) ==
    DiscussionIdeaLoop([i \in 1..Len(c.assessmentIdeas) |->
                           [c.assessmentIdeas[i] EXCEPT !.exampleQuestions =
                               SelectSeq(@, LAMBDA q : q.options # <<>>)]],
                       0, assessment_offset(c) + QuizSlideCount(c.assessmentIdeas), 0, lang)

discussion_slides(c, lang) ==
    DiscussionIdeaLoop(c.assessmentIdeas, 0,
                       assessment_offset(c) + QuizSlideCount(c.assessmentIdeas), 0, lang)

(* sections/readings.py *)
further_readings_slides(c, lang) ==
    LET readings == c.furtherReadings
        total_readings == Len(readings)
        slides_needed == (total_readings + readings_per_slide - 1) \div readings_per_slide
        base == assessment_offset(c) + QuizSlideCount(c.assessmentIdeas)
                + DiscussionSlideCount(c.assessmentIdeas)
    IN  IF readings = <<>> THEN <<>>
        ELSE [i \in 1..slides_needed |->
                LET slide_idx == i - 1
                    start_idx == slide_idx * readings_per_slide
                    end_idx == Min(start_idx + readings_per_slide, total_readings)
                IN  Slide("readings", TRUE, base + slide_idx + 1, slide_idx, 0,
                          Slice(readings, start_idx, end_idx), lang, lang)]

(* sections/facilitation.py *)
facilitation_offset(c) ==
    2 + Len(c.keyTerms) \div 4 - 1 + SlidesExceptSecond(c)
      + Len(c.activities) * 2 + 1 + Len(c.furtherReadings) \div 2

\* has_notes: some activity has non-empty extracted facilitation notes
has_notes(c) ==
    \E i \in 1..Len(c.activities) :
        extract_facilitation_content(c.activities[i].description).facilitation_notes # <<>>

\* an activity entry of the summary: its title box at y, its notes box at y + 0.5
FacilitationEntry(act_idx, y) == [activity |-> act_idx, y |-> y]

\* for idx, activity in enumerate(activities): fill the summary slide, start a
\* continuation slide when y passes FOOTER_Y - 0.5
RECURSIVE FacilitationLoop(_, _, _, _, _, _, _)
FacilitationLoop(c, idx, y, body, slide_no, total, lang) ==
    IF idx >= Len(c.activities)
    THEN LET slide_number == facilitation_offset(c) + QuizSlideCount(c.assessmentIdeas)
                             + DiscussionSlideCount(c.assessmentIdeas) + 1
         IN  << Slide("facilitation", TRUE, slide_number, slide_no, 0, body,
                      "none", lang) >>
    ELSE IF extract_facilitation_content(c.activities[idx + 1].description).facilitation_notes = <<>>
    THEN FacilitationLoop(c, idx + 1, y, body, slide_no, total, lang)
    ELSE LET y_separator == y + 50 + 80
             y_end == IF idx < Len(c.activities) - 1 THEN y_separator + 30 ELSE y_separator
             filled == Append(body, FacilitationEntry(idx, y))
         IN  IF y_end > FOOTER_Y - 50
             THEN << Slide("facilitation", TRUE, total - 1, slide_no, 0, filled,
                           "none", lang) >>
                  \o FacilitationLoop(c, idx + 1, 120, <<>>, slide_no + 1, total, lang)
             ELSE FacilitationLoop(c, idx + 1, y_end, filled, slide_no, total, lang)

\* faulty variant of facilitation_notes_slides: on overflow the footer's two
\* arguments are swapped, the slide prints total_slides + 1
facilitation_notes_slides_swapped(c, total, lang) ==
    IF ~has_notes(c) THEN <<>>
    ELSE FacilitationLoop(c, 0, 120, <<>>, 0, total + 2, lang)

facilitation_notes_slides(c, total, lang) ==
    IF ~has_notes(c) THEN <<>>
    ELSE FacilitationLoop(c, 0, 120, <<>>, 0, total, lang)

(* sections/closing.py *)
closing_slides(c, total, slide_number, lang) ==
    << Slide("closing", TRUE, slide_number, 0, 0, <<>>, lang, lang) >>

----------------------------------------------------------------------------
(* Output path check: builder.create_pptx *)

DotDot == <<".", ".">>

Dot == <<".">>

\* os.path.normpath on the component list of an absolute path
RECURSIVE NormPath(_, _)
NormPath(parts, acc) ==
    IF parts = <<>> THEN acc
    ELSE IF Head(parts) = Dot THEN NormPath(Tail(parts), acc)
    ELSE IF Head(parts) = DotDot
         THEN NormPath(Tail(parts),
                       IF acc = <<>> THEN acc ELSE SubSeq(acc, 1, Len(acc) - 1))
    ELSE NormPath(Tail(parts), Append(acc, Head(parts)))

\* the working directory relative paths are resolved against
Cwd == << <<"a">> >>

\* os.path.dirname(os.path.abspath(__file__)) of builder.py
base_dir == << <<"a">>, <<"p">> >>

\* os.path.abspath(tempfile.gettempdir())
TempDir == << <<"t">> >>

\* os.path.abspath(path)
abspath(path) ==
    NormPath(IF path.absolute THEN path.parts ELSE Cwd \o path.parts, <<>>)

\* os.path.dirname of a normalized absolute path
dirname(parts) == IF parts = <<>> THEN parts ELSE SubSeq(parts, 1, Len(parts) - 1)

\* the characters of a normalized absolute path
PathString(parts) ==
    IF parts = <<>> THEN <<"/">>
    ELSE Flatten([i \in 1..Len(parts) |-> <<"/">> \o parts[i]])

\* str.startswith
startswith(str, prefix) == IsPrefix(prefix, str)

allowed_output == NormPath(base_dir \o <<DotDot, <<"o">> >>, <<>>)

\* is_temp or is_out of create_pptx
PathAccepted(path) ==
    LET normalized_output_path == abspath(path)
        parent == dirname(normalized_output_path)
        is_temp == startswith(PathString(parent), PathString(TempDir))
        is_out == startswith(PathString(normalized_output_path), PathString(allowed_output))
    IN  is_temp \/ is_out

----------------------------------------------------------------------------
(* Inputs *)

Seqs(S, n) == UNION {[1..m -> S] : m \in 0..n}

Languages == {"en", "id"}

SlideTitles ==
    { <<"Slide", " ", "1", ":", " ", "Overview">>,
      <<"Slide", " ", "2">> }

Descriptions ==
    { <<"Work", " ", "in", " ", "pairs">>,
      <<"Work", " ", "Facilitation notes:", " ", "Walk", " ", "around">>,
      <<"Work", " ", "Facilitation tip:", " ", "Walk", " ", "around">>,
      <<"Work", " ", "Facilitation notes:", " ">> }

WithOptions == [options |-> <<"A", "B">>]

WithoutOptions == [options |-> <<>>]

Ideas ==
    { [type |-> <<"Quiz">>, exampleQuestions |-> <<WithOptions, WithoutOptions>>],
      [type |-> <<"Group", " ", "Discussion">>, exampleQuestions |-> <<WithoutOptions>>],
      [type |-> <<"quiz", " ", "and", " ", "discussion">>, exampleQuestions |-> <<WithOptions>>] }

MakeContent(titles, descriptions, ideas, k, r) ==
    [ title |-> <<"Intro", " ", "to", " ", "X">>,
      slides |-> [i \in 1..Len(titles) |-> [title |-> titles[i]]],
      activities |-> [i \in 1..Len(descriptions) |->
                         [title |-> <<"Lab">>, description |-> descriptions[i]]],
      assessmentIdeas |-> ideas,
      keyTerms |-> [i \in 1..k |-> i],
      furtherReadings |-> [i \in 1..r |-> i] ]

EmptyContent == MakeContent(<<>>, <<>>, <<>>, 0, 0)

\* the list-valued inputs, at most MaxListed entries over the three lists
ContentShapes ==
    UNION { [1..a -> SlideTitles] \X [1..b -> Descriptions] \X [1..c -> Ideas] :
              <<a, b, c>> \in { x \in (0..MaxSlides) \X (0..MaxActivities) \X (0..MaxIdeas) :
                                  x[1] + x[2] + x[3] <= MaxListed } }

BuildContents ==
    { MakeContent(sh[1], sh[2], sh[3], k, r) :
        sh \in ContentShapes, k \in 0..MaxKeyTerms, r \in 0..MaxReadings }

PathNames == { <<"t">>, <<"t", "x">>, <<"o">>, <<"o", "x">>, <<"a">>, <<"f">>, DotDot, Dot }

Paths == [absolute : BOOLEAN, parts : Seqs(PathNames, MaxPathDepth)]

PptxContents ==
    { EmptyContent,
      MakeContent(<< <<"Slide", " ", "1", ":", " ", "Overview">> >>,
                  << <<"Work", " ", "Facilitation notes:", " ", "Walk", " ", "around">> >>,
                  <<>>, 1, 1) }

NoPath == [absolute |-> FALSE, parts |-> <<>>]

TextAtoms == Range(facilitation_patterns) \cup Range(learning_patterns) \cup {"Work", " "}

Texts == Seqs(TextAtoms, MaxTextLen)

----------------------------------------------------------------------------
(* State machine *)

\* importing the package: constants.GLOBAL_LANG holds one of the label tables'
\* languages, and "from ..constants import GLOBAL_LANG" copies it into facilitation
ImportPackage ==
    /\ GLOBAL_LANG \in Languages
    /\ facilitation_GLOBAL_LANG = GLOBAL_LANG

FreshLocals ==
    /\ total_slides = [b \in Builds |-> 0]
    /\ prs = [b \in Builds |-> NoPrs]
    /\ facilitation_slide = [b \in Builds |-> FALSE]
    /\ called = [b \in Builds |-> {}]
    /\ saved = [b \in Builds |-> <<>>]

\* one call of build_full_presentation(content), language left at its default
Init ==
    /\ ImportPackage
    /\ \E c \in BuildContents :
          content = [b \in Builds |-> IF b = 1 THEN c ELSE EmptyContent]
    /\ language = [b \in Builds |-> DEFAULT_LANG]
    /\ entry = [b \in Builds |-> IF b = 1 THEN "build_full_presentation" ELSE "idle"]
    /\ output_path = [b \in Builds |-> NoPath]
    /\ pc = [b \in Builds |-> IF b = 1 THEN "set_language" ELSE "idle"]
    /\ FreshLocals
    /\ text = <<>>
    /\ extracted = <<>>

Goto(b, from, to, fn) ==
    /\ pc[b] = from
    /\ pc' = [pc EXCEPT ![b] = to]
    /\ called' = [called EXCEPT ![b] = @ \cup {fn}]

AppendSlides(b, new) == prs' = [prs EXCEPT ![b].slides = @ \o new]

set_language(b) ==
    /\ Goto(b, "set_language", "calculate_total_slides", "set_language")
    /\ GLOBAL_LANG' = NormalizedLanguage(language[b])
    /\ UNCHANGED <<facilitation_GLOBAL_LANG, content, language, entry, output_path, total_slides, prs,
                   facilitation_slide, saved, text, extracted>>

CalculateTotalSlides(b) ==
    /\ Goto(b, "calculate_total_slides", "Presentation", "calculate_total_slides")
    /\ total_slides' = [total_slides EXCEPT ![b] = calculate_total_slides(content[b])]
    /\ UNCHANGED <<GLOBAL_LANG, facilitation_GLOBAL_LANG, content, language, entry, output_path, prs,
                   facilitation_slide, saved, text, extracted>>

\* faulty variant of Presentation: one module-level Presentation object is reused,
\* so a build starts from the slides an earlier build left in it
Presentation_reused(b) ==
    /\ Goto(b, "Presentation", "create_title_slide", "Presentation")
    /\ prs' = [prs EXCEPT ![b] = [exists |-> TRUE,
                                  slides |-> Flatten([o \in 1..(b - 1) |-> prs[o].slides])]]
    /\ UNCHANGED <<GLOBAL_LANG, facilitation_GLOBAL_LANG, content, language, entry, output_path, total_slides,
                   facilitation_slide, saved, text, extracted>>

Presentation(b) ==
    /\ Goto(b, "Presentation", "create_title_slide", "Presentation")
    /\ prs' = [prs EXCEPT ![b] = [exists |-> TRUE, slides |-> <<>>]]
    /\ UNCHANGED <<GLOBAL_LANG, facilitation_GLOBAL_LANG, content, language, entry, output_path, total_slides,
                   facilitation_slide, saved, text, extracted>>

\* a section builder that appends the slides new and leaves total_slides alone
Section(b, from, to, new) ==
    /\ Goto(b, from, to, from)
    /\ AppendSlides(b, new)
    /\ UNCHANGED <<GLOBAL_LANG, facilitation_GLOBAL_LANG, content, language, entry, output_path, total_slides,
                   facilitation_slide, saved, text, extracted>>

create_title_slide(b) ==
    Section(b, "create_title_slide", "create_agenda_slide",
            title_slides(content[b], GLOBAL_LANG))

create_agenda_slide(b) ==
    Section(b, "create_agenda_slide", "create_learning_outcomes_slide",
            agenda_slides(content[b], GLOBAL_LANG))

create_learning_outcomes_slide(b) ==
    Section(b, "create_learning_outcomes_slide", "create_key_terms_slide",
            learning_outcomes_slides(content[b], GLOBAL_LANG))

create_key_terms_slide(b) ==
    Section(b, "create_key_terms_slide", "create_content_slides",
            key_terms_slides(content[b], GLOBAL_LANG))

\* faulty variant of create_content_slides: the skipped second entry is deleted
\* from the caller's list instead of being passed over
create_content_slides_pop(b) ==
    /\ Goto(b, "create_content_slides", "create_activity_slides", "create_content_slides")
    /\ AppendSlides(b, content_slides(content[b], GLOBAL_LANG))
    /\ content' = [content EXCEPT ![b].slides =
                      IF Len(@) >= 2 THEN <<Head(@)>> \o Drop(@, 2) ELSE @]
    /\ UNCHANGED <<GLOBAL_LANG, facilitation_GLOBAL_LANG, language, entry, output_path, total_slides,
                   facilitation_slide, saved, text, extracted>>

create_content_slides(b) ==
    Section(b, "create_content_slides", "create_activity_slides",
            content_slides(content[b], GLOBAL_LANG))

create_activity_slides(b) ==
    Section(b, "create_activity_slides", "create_quiz_slides",
            activity_slides(content[b], GLOBAL_LANG))

create_quiz_slides(b) ==
    Section(b, "create_quiz_slides", "create_discussion_slides",
            quiz_slides(content[b], GLOBAL_LANG))

create_discussion_slides(b) ==
    Section(b, "create_discussion_slides", "create_further_readings_slides",
            discussion_slides(content[b], GLOBAL_LANG))

create_further_readings_slides(b) ==
    Section(b, "create_further_readings_slides", "create_facilitation_notes_slide",
            further_readings_slides(content[b], GLOBAL_LANG))

\* the call and the "if facilitation_slide: total_slides += 1" that follows it
create_facilitation_notes_slide(b) ==
    LET new == facilitation_notes_slides(content[b], total_slides[b], facilitation_GLOBAL_LANG) IN
    /\ Goto(b, "create_facilitation_notes_slide", "create_closing_slide",
            "create_facilitation_notes_slide")
    /\ AppendSlides(b, new)
    /\ facilitation_slide' = [facilitation_slide EXCEPT ![b] = (new # <<>>)]
    /\ total_slides' = [total_slides EXCEPT ![b] = IF new # <<>> THEN @ + 1 ELSE @]
    /\ UNCHANGED <<GLOBAL_LANG, facilitation_GLOBAL_LANG, content, language, entry, output_path, saved,
                   text, extracted>>

\* faulty variant of create_closing_slide: the closing slide prints its position
create_closing_slide_position(b) ==
    /\ Goto(b, "create_closing_slide",
            IF entry[b] = "create_pptx" THEN "save" ELSE "done", "create_closing_slide")
    /\ AppendSlides(b, closing_slides(content[b], total_slides[b], Len(prs[b].slides) + 1,
                                      GLOBAL_LANG))
    /\ UNCHANGED <<GLOBAL_LANG, facilitation_GLOBAL_LANG, content, language, entry, output_path, total_slides,
                   facilitation_slide, saved, text, extracted>>

\* create_closing_slide(prs, content, total_slides, total_slides), then return prs
create_closing_slide(b) ==
    /\ Goto(b, "create_closing_slide",
            IF entry[b] = "create_pptx" THEN "save" ELSE "done", "create_closing_slide")
    /\ AppendSlides(b, closing_slides(content[b], total_slides[b], total_slides[b],
                                      GLOBAL_LANG))
    /\ UNCHANGED <<GLOBAL_LANG, facilitation_GLOBAL_LANG, content, language, entry, output_path, total_slides,
                   facilitation_slide, saved, text, extracted>>

\* faulty variant of create_pptx: set_language runs before the path check
create_pptx_language_first(b) ==
    /\ pc[b] = "create_pptx"
    /\ pc' = [pc EXCEPT ![b] = IF PathAccepted(output_path[b])
                                THEN "calculate_total_slides" ELSE "rejected"]
    /\ called' = [called EXCEPT ![b] = @ \cup {"create_pptx", "set_language"}]
    /\ GLOBAL_LANG' = NormalizedLanguage(language[b])
    /\ UNCHANGED <<facilitation_GLOBAL_LANG, content, language, entry, output_path, total_slides,
                   prs, facilitation_slide, saved, text, extracted>>

\* create_pptx up to the call of build_full_presentation: the path check
create_pptx(b) ==
    /\ Goto(b, "create_pptx",
            IF PathAccepted(output_path[b]) THEN "set_language" ELSE "rejected",
            "create_pptx")
    /\ UNCHANGED <<GLOBAL_LANG, facilitation_GLOBAL_LANG, content, language, entry, output_path, total_slides,
                   prs, facilitation_slide, saved, text, extracted>>

\* prs.save(normalized_output_path)
save(b) ==
    /\ Goto(b, "save", "done", "save")
    /\ saved' = [saved EXCEPT ![b] = Append(@, abspath(output_path[b]))]
    /\ UNCHANGED <<GLOBAL_LANG, facilitation_GLOBAL_LANG, content, language, entry, output_path, total_slides,
                   prs, facilitation_slide, text, extracted>>

Next ==
    \E b \in Builds :
        \/ set_language(b)
        \/ CalculateTotalSlides(b)
        \/ Presentation(b)
        \/ create_title_slide(b)
        \/ create_agenda_slide(b)
        \/ create_learning_outcomes_slide(b)
        \/ create_key_terms_slide(b)
        \/ create_content_slides(b)
        \/ create_activity_slides(b)
        \/ create_quiz_slides(b)
        \/ create_discussion_slides(b)
        \/ create_further_readings_slides(b)
        \/ create_facilitation_notes_slide(b)
        \/ create_closing_slide(b)

Spec == Init /\ [][Next]_vars

\* one call of create_pptx(content, output_path, language)
InitPptx ==
    /\ ImportPackage
    /\ \E c \in PptxContents :
          content = [b \in Builds |-> IF b = 1 THEN c ELSE EmptyContent]
    /\ \E l \in Languages :
          language = [b \in Builds |-> IF b = 1 THEN l ELSE DEFAULT_LANG]
    /\ entry = [b \in Builds |-> IF b = 1 THEN "create_pptx" ELSE "idle"]
    /\ \E p \in Paths :
          output_path = [b \in Builds |-> IF b = 1 THEN p ELSE NoPath]
    /\ pc = [b \in Builds |-> IF b = 1 THEN "create_pptx" ELSE "idle"]
    /\ FreshLocals
    /\ text = <<>>
    /\ extracted = <<>>

NextPptx ==
    \E b \in Builds :
        \/ create_pptx(b)
        \/ set_language(b)
        \/ CalculateTotalSlides(b)
        \/ Presentation(b)
        \/ create_title_slide(b)
        \/ create_agenda_slide(b)
        \/ create_learning_outcomes_slide(b)
        \/ create_key_terms_slide(b)
        \/ create_content_slides(b)
        \/ create_activity_slides(b)
        \/ create_quiz_slides(b)
        \/ create_discussion_slides(b)
        \/ create_further_readings_slides(b)
        \/ create_facilitation_notes_slide(b)
        \/ create_closing_slide(b)
        \/ save(b)

SpecPptx == InitPptx /\ [][NextPptx]_vars

\* two calls of build_full_presentation running concurrently in one process
InitConc ==
    /\ ImportPackage
    /\ content \in [Builds -> PptxContents]
    /\ language \in [Builds -> Languages]
    /\ entry = [b \in Builds |-> "build_full_presentation"]
    /\ output_path = [b \in Builds |-> NoPath]
    /\ pc = [b \in Builds |-> "set_language"]
    /\ FreshLocals
    /\ text = <<>>
    /\ extracted = <<>>

SpecConc == InitConc /\ [][Next]_vars

\* the contents of two builds in sequence: every list shape, all key terms and readings
SeqContents ==
    { MakeContent(sh[1], sh[2], sh[3], MaxKeyTerms, MaxReadings) : sh \in ContentShapes }

\* build_full_presentation(content, language) called twice in sequence by one
\* caller: the second call waits for the first to return
InitSeq ==
    /\ ImportPackage
    /\ \E c \in SeqContents : content = [b \in Builds |-> c]
    /\ \E l \in Languages : language = [b \in Builds |-> l]
    /\ entry = [b \in Builds |-> "build_full_presentation"]
    /\ output_path = [b \in Builds |-> NoPath]
    /\ pc = [b \in Builds |-> IF b = 1 THEN "set_language" ELSE "waiting"]
    /\ FreshLocals
    /\ text = <<>>
    /\ extracted = <<>>

\* the caller's second call, made once the first has returned its deck
SecondCall ==
    /\ pc[1] = "done"
    /\ pc[2] = "waiting"
    /\ pc' = [pc EXCEPT ![2] = "set_language"]
    /\ UNCHANGED <<GLOBAL_LANG, facilitation_GLOBAL_LANG, content, language, entry, output_path,
                   total_slides, prs, facilitation_slide, called, saved, text, extracted>>

NextSeq ==
    \/ Next
    \/ SecondCall

SpecSeq == InitSeq /\ [][NextSeq]_vars

\* long lessons: up to MaxAgendaTitles titled content slides and up to
\* MaxAgendaActivities activities, nothing else
AgendaContents ==
    { MakeContent([i \in 1..m |-> <<"Slide", " ", "1", ":", " ", "Overview">>],
                  [i \in 1..a |-> <<"Work", " ", "in", " ", "pairs">>], <<>>, 0, 0) :
        m \in 0..MaxAgendaTitles, a \in 0..MaxAgendaActivities }

\* one call of build_full_presentation(content) on a long lesson
InitAgenda ==
    /\ ImportPackage
    /\ \E c \in AgendaContents :
          content = [b \in Builds |-> IF b = 1 THEN c ELSE EmptyContent]
    /\ language = [b \in Builds |-> DEFAULT_LANG]
    /\ entry = [b \in Builds |-> IF b = 1 THEN "build_full_presentation" ELSE "idle"]
    /\ output_path = [b \in Builds |-> NoPath]
    /\ pc = [b \in Builds |-> IF b = 1 THEN "set_language" ELSE "idle"]
    /\ FreshLocals
    /\ text = <<>>
    /\ extracted = <<>>

SpecAgenda == InitAgenda /\ [][Next]_vars

\* extract_facilitation_content as a pure function of its argument
InitExtract ==
    /\ ImportPackage
    /\ content = [b \in Builds |-> EmptyContent]
    /\ language = [b \in Builds |-> DEFAULT_LANG]
    /\ entry = [b \in Builds |-> "idle"]
    /\ output_path = [b \in Builds |-> NoPath]
    /\ pc = [b \in Builds |-> "idle"]
    /\ FreshLocals
    /\ text \in Texts
    /\ extracted = <<>>

Extract ==
    /\ extracted = <<>>
    /\ extracted' = <<extract_facilitation_content(text)>>
    /\ UNCHANGED <<buildVars, text>>

NextExtract == Extract

SpecExtract == InitExtract /\ [][NextExtract]_vars

----------------------------------------------------------------------------
(* Properties *)

\* the positions of a create_pptx / build_full_presentation call, in program order
Steps ==
    << "create_pptx", "set_language", "calculate_total_slides", "Presentation",
       "create_title_slide", "create_agenda_slide", "create_learning_outcomes_slide",
       "create_key_terms_slide", "create_content_slides", "create_activity_slides",
       "create_quiz_slides", "create_discussion_slides",
       "create_further_readings_slides", "create_facilitation_notes_slide",
       "create_closing_slide", "save", "done" >>

\* build b has completed the step named step
Passed(b, step) ==
    /\ pc[b] \in Range(Steps)
    /\ Find(Steps, pc[b]) > Find(Steps, step)

Deck(b) == prs[b].slides

OfKind(b, kinds) == SelectSeq(Deck(b), LAMBDA sl : sl.kind \in kinds)

\* the least n with n * d >= h
LeastCover(h, d) == CHOOSE n \in 0..h : n * d >= h /\ (n = 0 \/ (n - 1) * d < h)

\* C1: the footer number of the slide at 1-indexed deck position N equals N, for
\* every slide that carries a footer.
C1_FooterEqualsPosition ==
    \A b \in Builds : \A n \in 1..Len(Deck(b)) :
        Deck(b)[n].has_footer => Deck(b)[n].num = n

\* C2: a finished build has appended at least total_slides slides, and exceeds
\* total_slides exactly by the number of facilitation-summary continuation slides.
C2_AppendedMatchesTotal ==
    \A b \in Builds :
        Passed(b, "create_closing_slide") =>
            LET summary == Len(OfKind(b, {"facilitation"}))
                extra == IF summary > 0 THEN summary - 1 ELSE 0
            IN  /\ Len(Deck(b)) >= total_slides[b]
                /\ Len(Deck(b)) = total_slides[b] + extra

\* C3: every item of every agenda section is placed on one of the agenda slides.
C3_AllAgendaItemsPlaced ==
    \A b \in Builds :
        Passed(b, "create_agenda_slide") =>
            LET agenda_items == BuilderAgendaItems(content[b], GLOBAL_LANG)
                agenda == OfKind(b, {"agenda"})
            IN  \A sec \in 1..Len(agenda_items) :
                    \A item \in 1..Len(agenda_items[sec].items) :
                        \E n \in 1..Len(agenda) :
                            \E j \in 1..Len(agenda[n].body) :
                                agenda[n].body[j] = AgendaItem(sec - 1, item - 1)

\* the counts of the closed formula of C4
C4_MainItems(c) ==
    Cardinality({i \in 1..Len(c.slides) : clean_slide_title(c.slides[i].title) # <<>>})

C4_QuizQuestions(c) ==
    SumSeq([i \in 1..Len(c.assessmentIdeas) |->
        LET idea == c.assessmentIdeas[i] IN
        IF IsQuiz(idea)
        THEN Cardinality({j \in 1..Len(idea.exampleQuestions) :
                             idea.exampleQuestions[j].options # <<>>})
        ELSE 0])

C4_DiscussionQuestions(c) ==
    SumSeq([i \in 1..Len(c.assessmentIdeas) |->
        LET idea == c.assessmentIdeas[i] IN
        IF IsDiscussion(idea) THEN Len(idea.exampleQuestions) ELSE 0])

\* discussion questions the agenda lists: those of ideas not already taken as quiz
C4_AgendaDiscussionQuestions(c) ==
    SumSeq([i \in 1..Len(c.assessmentIdeas) |->
        LET idea == c.assessmentIdeas[i] IN
        IF ~IsQuiz(idea) /\ IsDiscussion(idea) THEN Len(idea.exampleQuestions) ELSE 0])

C4_Section(n) == IF n > 0 THEN section_height + item_height * n ELSE 0

C4_Height(c) ==
    C4_Section(2)
    + C4_Section(C4_MainItems(c))
    + C4_Section(Len(c.activities))
    + C4_Section((IF C4_QuizQuestions(c) > 0 THEN 1 ELSE 0)
                 + (IF C4_AgendaDiscussionQuestions(c) > 0 THEN 1 ELSE 0))
    + C4_Section(IF Len(c.furtherReadings) > 0 THEN 1 ELSE 0)

C4_Facilitation(c) ==
    IF \E i \in 1..Len(c.activities) :
          \E m \in {"Facilitation notes:", "Facilitation Notes:", "Facilitator notes:"} :
              m \in Range(c.activities[i].description)
    THEN 1 ELSE 0

C4_Formula(c) ==
    1 + LeastCover(C4_Height(c), FOOTER_Y - 120) + 1 + LeastCover(Len(c.keyTerms), 4)
      + Len(c.slides) + 2 * Len(c.activities)
      + 2 * C4_QuizQuestions(c) + 2 * C4_DiscussionQuestions(c)
      + LeastCover(Len(c.furtherReadings), 2) + 1 + C4_Facilitation(c)

\* C4: calculate_total_slides(content) equals 1 + ceil(H / (FOOTER_Y - 1.2)) + 1
\* + ceil(K/4) + C + 2A + 2Q + 2D + ceil(R/2) + 1 + F.
C4_TotalFormula ==
    \A b \in Builds :
        pc[b] = "Presentation" => total_slides[b] = C4_Formula(content[b])

\* C4 witness: the total has been computed for a content with a slide the agenda
\* leaves out, five key terms, a quiz question, a reading and a marker.
C4_Witness ==
    /\ pc[1] = "Presentation"
    /\ Len(content[1].slides) >= 1
    /\ C4_MainItems(content[1]) < Len(content[1].slides)
    /\ Len(content[1].keyTerms) = 5
    /\ Len(content[1].furtherReadings) = 1
    /\ C4_Facilitation(content[1]) = 1
    /\ C4_QuizQuestions(content[1]) > 0
    /\ total_slides[1] = C4_Formula(content[1])

\* C5: every label a build renders through t() comes from the label table of the
\* build's own requested language, whatever the interleaving with another build.
C5_LabelsFromOwnLanguage ==
    \A b \in Builds : \A n \in 1..Len(Deck(b)) :
        Deck(b)[n].t_lang # "none" =>
            Deck(b)[n].t_lang = NormalizedLanguage(language[b])

\* the normalized path p is the directory dir or lies below it
InsideDir(p, dir) == Len(dir) <= Len(p) /\ \A i \in 1..Len(dir) : p[i] = dir[i]

\* C6: create_pptx lets a call proceed only if the normalized path lies inside the
\* output directory or the temp directory; every other path is rejected.
C6_AcceptedOnlyInsideAllowed ==
    \A b \in Builds :
        (entry[b] = "create_pptx" /\ Passed(b, "create_pptx")) =>
            \/ InsideDir(abspath(output_path[b]), allowed_output)
            \/ InsideDir(abspath(output_path[b]), TempDir)

\* C7: when create_pptx rejects the path, set_language and calculate_total_slides
\* have not run, no Presentation exists, no slide was appended, nothing was saved.
C7_RejectedBeforeRendering ==
    \A b \in Builds :
        pc[b] = "rejected" =>
            /\ called[b] = {"create_pptx"}
            /\ GLOBAL_LANG = facilitation_GLOBAL_LANG
            /\ total_slides[b] = 0
            /\ prs[b] = NoPrs
            /\ saved[b] = <<>>

\* C7 witness: a call asking for the non-default language was rejected.
C7_Witness ==
    /\ pc[1] = "rejected"
    /\ language[1] = "id"
    /\ ~PathAccepted(output_path[1])
    /\ called[1] = {"create_pptx"}

\* C8: when create_key_terms_slide has returned (the build is about to run
\* create_content_slides), N key terms have given ceil(N/4) slides (none for N = 0),
\* each with at most 4 terms, and the terms of the slides in slide order are the
\* input list.
C8_KeyTermsPagination ==
    \A b \in Builds :
        pc[b] = "create_content_slides" =>
            LET ks == OfKind(b, {"key_terms"})
                terms == content[b].keyTerms
            IN  /\ Len(ks) = LeastCover(Len(terms), 4)
                /\ \A n \in 1..Len(ks) : Len(ks[n].body) <= 4
                /\ Flatten([n \in 1..Len(ks) |-> ks[n].body]) = terms

\* C8 witness: five key terms were paginated onto two slides.
C8_Witness ==
    /\ pc[1] = "create_content_slides"
    /\ Len(content[1].keyTerms) = 5
    /\ Len(OfKind(1, {"key_terms"})) = 2
    /\ OfKind(1, {"key_terms"})[2].body = <<5>>

\* C9: when create_activity_slides has returned (the build is about to run
\* create_quiz_slides), A activities have given exactly 2*A slides, main(0),
\* materials(0), main(1), ..., numbered offset + 2*i + 1 and offset + 2*i + 2 from
\* the section's offset.
C9_ActivityPairs ==
    \A b \in Builds :
        pc[b] = "create_quiz_slides" =>
            LET as == OfKind(b, {"activity_main", "activity_materials"})
                A == Len(content[b].activities)
                offset == activities_offset(content[b])
            IN  /\ Len(as) = 2 * A
                /\ \A i \in 0..(A - 1) :
                      /\ as[2 * i + 1].kind = "activity_main"
                      /\ as[2 * i + 1].src = i
                      /\ as[2 * i + 1].num = offset + 2 * i + 1
                      /\ as[2 * i + 2].kind = "activity_materials"
                      /\ as[2 * i + 2].src = i
                      /\ as[2 * i + 2].num = offset + 2 * i + 2
                /\ \A n \in 1..Len(Deck(b)) :
                      Deck(b)[n].kind = "activity_main" =>
                          /\ n < Len(Deck(b))
                          /\ Deck(b)[n + 1].kind = "activity_materials"
                          /\ Deck(b)[n + 1].src = Deck(b)[n].src

\* C9 witness: three activities were expanded into six slides.
C9_Witness ==
    /\ pc[1] = "create_quiz_slides"
    /\ Len(content[1].activities) = 3
    /\ Len(OfKind(1, {"activity_main", "activity_materials"})) = 6
    /\ OfKind(1, {"activity_materials"})[3].num = activities_offset(content[1]) + 6

NoMarker(txt, patterns) == \A k \in 1..Len(patterns) : ~Contains(txt, patterns[k])

\* the result extract_facilitation_content must give when splitting at position p
SplitAt(txt, p) ==
    [ clean_description |-> Strip(SubSeq(txt, 1, p - 1)),
      facilitation_notes |-> Strip(SubSeq(txt, p + 1, Len(txt))),
      learning_objectives |-> <<>> ]

\* C10 as stated: without any marker the text comes back unchanged with empty
\* notes and objectives; with a facilitation marker M at position P and no
\* learning-objective marker the text is split at P, for every marker M of the list.
C10_AnyMarkerSplits ==
    extracted # <<>> =>
        /\ (NoMarker(text, facilitation_patterns) /\ NoMarker(text, learning_patterns)) =>
              extracted[1] = [clean_description |-> text, facilitation_notes |-> <<>>,
                              learning_objectives |-> <<>>]
        /\ NoMarker(text, learning_patterns) =>
              \A p \in 1..Len(text) :
                  text[p] \in Range(facilitation_patterns) => extracted[1] = SplitAt(text, p)

\* the marker the amended C10 splits at: the earliest of the list that occurs
C10_Marker ==
    facilitation_patterns[CHOOSE k \in 1..Len(facilitation_patterns) :
        /\ Contains(text, facilitation_patterns[k])
        /\ \A j \in 1..(k - 1) : ~Contains(text, facilitation_patterns[j])]

\* C10 amended: the split is at the first occurrence of the marker that comes
\* first in the list among the markers occurring in the text.
C10_FirstListedMarkerSplits ==
    extracted # <<>> =>
        /\ (NoMarker(text, facilitation_patterns) /\ NoMarker(text, learning_patterns)) =>
              extracted[1] = [clean_description |-> text, facilitation_notes |-> <<>>,
                              learning_objectives |-> <<>>]
        /\ (~NoMarker(text, facilitation_patterns) /\ NoMarker(text, learning_patterns)) =>
              \E p \in 1..Len(text) :
                  /\ text[p] = C10_Marker
                  /\ \A q \in 1..(p - 1) : text[q] # C10_Marker
                  /\ extracted[1] = SplitAt(text, p)

\* C10 witness: a later-listed marker precedes an earlier-listed one in the text
\* and the split was made at the earlier-listed one.
C10_Witness ==
    /\ extracted # <<>>
    /\ text = <<"Work", "Facilitator notes:", "Facilitation notes:">>
    /\ extracted[1].clean_description = <<"Work", "Facilitator notes:">>
    /\ extracted[1].facilitation_notes = <<>>

\* C11: in a single build with language L every generated heading or label on
\* every slide, the facilitation-summary title and continuation title included,
\* comes from the label table of L.
C11_HeadingsFromRequestedLanguage ==
    \A b \in Builds : \A n \in 1..Len(Deck(b)) :
        /\ Deck(b)[n].t_lang # "none" =>
              Deck(b)[n].t_lang = NormalizedLanguage(language[b])
        /\ Deck(b)[n].heading_lang # "none" =>
              Deck(b)[n].heading_lang = NormalizedLanguage(language[b])

C13_ContentUnchanged == [][content' = content]_vars

C13_Witness ==
    /\ pc[1] = "done"
    /\ Len(content[1].slides) >= 2
    /\ Len(content[1].activities) >= 1
    /\ Len(content[1].keyTerms) >= 1

\* the content of the worked example: a title and one content slide, nothing else
C14_Content ==
    MakeContent(<< <<"Slide", " ", "1", ":", " ", "Overview">> >>, <<>>, <<>>, 0, 0)

\* C14: for the content with title "Intro to X", the single content slide
\* "Slide 1: Overview" and nothing else, calculate_total_slides returns 5 and the
\* build appends exactly 5 slides: title, one agenda, learning outcomes, one
\* content slide, closing.
C14_MinimalDeck ==
    \A b \in Builds :
        content[b] = C14_Content =>
            /\ pc[b] = "Presentation" => total_slides[b] = 5
            /\ pc[b] = "done" =>
                  [n \in 1..Len(Deck(b)) |-> Deck(b)[n].kind]
                      = <<"title", "agenda", "learning_outcomes", "content", "closing">>

C14_Witness ==
    /\ content[1] = C14_Content
    /\ pc[1] = "done"
    /\ Len(Deck(1)) = 5

\* C15: with at least one key term and at least one content slide, the footer
\* of the first rendered content slide is the footer of the last key-terms slide
\* plus one.
C15_ContentFollowsKeyTerms ==
    \A b \in Builds :
        /\ pc[b] = "create_activity_slides"
        /\ Len(content[b].keyTerms) >= 1
        /\ Len(content[b].slides) >= 1
        => LET key_terms == OfKind(b, {"key_terms"})
               rendered == OfKind(b, {"content"})
           IN  /\ key_terms # <<>>
               /\ rendered # <<>>
               /\ rendered[1].num = key_terms[Len(key_terms)].num + 1

\* C16: when a facilitation-summary slide is produced and there is at least one
\* further reading, the footer of the last facilitation-summary slide is the
\* footer of the last further-readings slide plus one.
C16_FacilitationFollowsReadings ==
    \A b \in Builds :
        /\ pc[b] = "create_closing_slide"
        /\ facilitation_slide[b]
        /\ Len(content[b].furtherReadings) >= 1
        => LET readings == OfKind(b, {"readings"})
               summary == OfKind(b, {"facilitation"})
           IN  /\ readings # <<>>
               /\ summary # <<>>
               /\ summary[Len(summary)].num = readings[Len(readings)].num + 1

\* C17: calculate_total_slides adds a slide for the facilitation summary exactly
\* when create_facilitation_notes_slide produces one.
C17_CounterAgreesOnFacilitation ==
    \A b \in Builds :
        pc[b] = "create_closing_slide" =>
            (has_facilitation_notes(content[b]) <=> facilitation_slide[b])

\* the headers on the agenda slides of build b: deck position and place in the body
C18_Headers(b) ==
    { h \in UNION { {n} \X (1..Len(Deck(b)[n].body)) : n \in 1..Len(Deck(b)) } :
        /\ Deck(b)[h[1]].kind = "agenda"
        /\ Deck(b)[h[1]].body[h[2]].header }

\* C18: over the run of agenda slides every section's header is placed exactly
\* once, on the slide where the section's first item is placed and immediately
\* before that item: never again on a continuation slide and never on a slide
\* that holds none of the section's items.
C18_HeaderOnceBeforeFirstItem ==
    \A b \in Builds :
        pc[b] = "create_learning_outcomes_slide" =>
            /\ \A sec \in 0..(Len(BuilderAgendaItems(content[b], GLOBAL_LANG)) - 1) :
                  Cardinality({ h \in C18_Headers(b) :
                                  Deck(b)[h[1]].body[h[2]].section = sec }) = 1
            /\ \A h \in C18_Headers(b) :
                  LET body == Deck(b)[h[1]].body IN
                  /\ h[2] < Len(body)
                  /\ body[h[2] + 1] = AgendaItem(body[h[2]].section, 0)

\* C19: the number printed on the closing slide is calculate_total_slides(content)
\* when create_facilitation_notes_slide returned no slide and
\* calculate_total_slides(content) + 1 when it returned one.
C19_ClosingNumber ==
    \A b \in Builds :
        pc[b] = "done" =>
            /\ Deck(b) # <<>>
            /\ Deck(b)[Len(Deck(b))].kind = "closing"
            /\ Deck(b)[Len(Deck(b))].has_footer
            /\ Deck(b)[Len(Deck(b))].num =
                  calculate_total_slides(content[b])
                  + (IF OfKind(b, {"facilitation"}) # <<>> THEN 1 ELSE 0)

C19_Witness ==
    /\ pc[1] = "done"
    /\ OfKind(1, {"facilitation"}) # <<>>
    /\ ~has_facilitation_notes(content[1])
    /\ Deck(1)[Len(Deck(1))].num = calculate_total_slides(content[1]) + 1

\* C20: create_agenda_slide appends exactly as many agenda slides as
\* calculate_total_slides adds for the agenda, both deriving the same section
\* list (same sections, same item counts).
C20_AgendaCountsAgree ==
    \A b \in Builds :
        pc[b] = "create_learning_outcomes_slide" =>
            LET counted == CounterAgendaItems(content[b])
                built == BuilderAgendaItems(content[b], GLOBAL_LANG)
            IN  /\ Len(counted) = Len(built)
                /\ \A sec \in 1..Len(built) :
                      Len(counted[sec].items) = Len(built[sec].items)
                /\ Len(OfKind(b, {"agenda"})) = CounterSlidesNeeded(content[b])

\* the items placed on the agenda slides of build b, in deck order
C21_Placed(b) ==
    SelectSeq(Flatten([n \in 1..Len(OfKind(b, {"agenda"})) |-> OfKind(b, {"agenda"})[n].body]),
              LAMBDA e : ~e.header)

\* C21: over all agenda slides no item is placed twice, the placed items appear
\* in agenda order, and a section interrupted by overflow resumes on the next
\* slide at its first unplaced item: the placed items, read in deck order, are
\* the agenda's items in order from the first one on, without gap or repeat.
C21_ItemsInOrderOnce ==
    \A b \in Builds :
        pc[b] = "create_learning_outcomes_slide" =>
            LET agenda_items == BuilderAgendaItems(content[b], GLOBAL_LANG)
                placed == C21_Placed(b)
            IN  /\ placed # <<>> => placed[1] = AgendaItem(0, 0)
                /\ \A i \in 1..(Len(placed) - 1) :
                      IF placed[i].item + 1 < Len(agenda_items[placed[i].section + 1].items)
                      THEN placed[i + 1] = AgendaItem(placed[i].section, placed[i].item + 1)
                      ELSE placed[i + 1] = AgendaItem(placed[i].section + 1, 0)

\* a section interrupted by overflow: its items lie on two agenda slides
C21_Witness ==
    /\ pc[1] = "create_learning_outcomes_slide"
    /\ \E n \in 1..(Len(Deck(1)) - 1) :
          /\ Deck(1)[n].kind = "agenda"
          /\ Deck(1)[n + 1].kind = "agenda"
          /\ \E i \in 1..Len(Deck(1)[n].body), j \in 1..Len(Deck(1)[n + 1].body) :
                /\ ~Deck(1)[n].body[i].header
                /\ ~Deck(1)[n + 1].body[j].header
                /\ Deck(1)[n].body[i].section = Deck(1)[n + 1].body[j].section

\* C22: create_content_slides emits no slide for the entry at list index 1 and
\* exactly one slide for every other index, in input order; index 0 prints
\* offset + 1 and index i >= 2 prints offset + i, with offset = 2 + floor(K / 4).
C22_ContentSkipsSecond ==
    \A b \in Builds :
        pc[b] = "create_activity_slides" =>
            LET rendered == OfKind(b, {"content"})
                C == Len(content[b].slides)
                offset == 2 + Len(content[b].keyTerms) \div 4
            IN  /\ Len(rendered) = IF C <= 1 THEN C ELSE C - 1
                /\ \A n \in 1..Len(rendered) :
                      /\ rendered[n].src = IF n = 1 THEN 0 ELSE n
                      /\ rendered[n].has_footer
                      /\ rendered[n].num = IF n = 1 THEN offset + 1 ELSE offset + rendered[n].src

C22_Witness ==
    /\ pc[1] = "create_activity_slides"
    /\ Len(content[1].slides) = 3
    /\ Len(content[1].keyTerms) = 5
    /\ Len(OfKind(1, {"content"})) = 2

\* the deck positions of build b that hold a slide of kind k for question q_idx
\* of idea idea_idx (both 0-based)
C23_Positions(b, k, idea_idx, q_idx) ==
    { n \in 1..Len(Deck(b)) :
        /\ Deck(b)[n].kind = k
        /\ Deck(b)[n].src = idea_idx
        /\ Deck(b)[n].sub = q_idx }

\* the slide at position n is followed by the slide of kind k of the same
\* question, numbered one higher
C23_FollowedBy(b, n, k) ==
    /\ n < Len(Deck(b))
    /\ Deck(b)[n + 1].kind = k
    /\ Deck(b)[n + 1].src = Deck(b)[n].src
    /\ Deck(b)[n + 1].sub = Deck(b)[n].sub
    /\ Deck(b)[n + 1].num = Deck(b)[n].num + 1

\* C23: every quiz or discussion question slide is immediately followed by its
\* own answer / guidance slide, numbered one higher; a question of a quiz-typed
\* idea produces the pair iff its options are non-empty, every question of a
\* discussion-typed idea produces the pair whatever its options.
C23_QuestionAnswerPairs ==
    \A b \in Builds :
        pc[b] = "create_further_readings_slides" =>
            LET ideas == content[b].assessmentIdeas IN
            /\ \A n \in 1..Len(Deck(b)) :
                  /\ Deck(b)[n].kind = "quiz_question" => C23_FollowedBy(b, n, "quiz_answer")
                  /\ Deck(b)[n].kind = "discussion_question"
                        => C23_FollowedBy(b, n, "discussion_guidance")
                  /\ Deck(b)[n].kind = "quiz_answer" => Deck(b)[n - 1].kind = "quiz_question"
                  /\ Deck(b)[n].kind = "discussion_guidance"
                        => Deck(b)[n - 1].kind = "discussion_question"
            /\ \A i \in 1..Len(ideas) : \A j \in 1..Len(ideas[i].exampleQuestions) :
                  /\ IsQuiz(ideas[i]) =>
                        Cardinality(C23_Positions(b, "quiz_question", i - 1, j - 1))
                            = IF ideas[i].exampleQuestions[j].options # <<>> THEN 1 ELSE 0
                  /\ IsDiscussion(ideas[i]) =>
                        Cardinality(C23_Positions(b, "discussion_question", i - 1, j - 1)) = 1

\* a deck with a quiz pair and the discussion pair of a question without options
C23_Witness ==
    /\ pc[1] = "create_further_readings_slides"
    /\ OfKind(1, {"quiz_question"}) # <<>>
    /\ \E i \in 1..Len(content[1].assessmentIdeas) :
          /\ IsDiscussion(content[1].assessmentIdeas[i])
          /\ content[1].assessmentIdeas[i].exampleQuestions[1].options = <<>>
          /\ C23_Positions(1, "discussion_guidance", i - 1, 0) # {}

\* C24: on every facilitation-summary slide every placed activity entry (title
\* box of height 0.4 at y, notes box of height 0.6 at y + 0.5) lies entirely
\* above the footer line FOOTER_Y.
C24_EntriesAboveFooter ==
    \A b \in Builds :
        pc[b] = "create_closing_slide" =>
            \A n \in 1..Len(Deck(b)) :
                Deck(b)[n].kind = "facilitation" =>
                    \A i \in 1..Len(Deck(b)[n].body) :
                        /\ Deck(b)[n].body[i].y + 40 <= FOOTER_Y
                        /\ Deck(b)[n].body[i].y + 50 + 60 <= FOOTER_Y

\* C29: every slide appended by create_facilitation_notes_slide, continuation
\* slides included, holds the notes of at least one activity.
C29_NoEmptySummarySlide ==
    \A b \in Builds :
        pc[b] = "create_closing_slide" =>
            \A n \in 1..Len(Deck(b)) :
                Deck(b)[n].kind = "facilitation" => Deck(b)[n].body # <<>>

\* C25: when a facilitation marker is found with non-empty notes, the
\* learning-objective markers are searched only in the trimmed text before the
\* facilitation marker: a learning-objective marker occurring only after it is
\* not extracted (objectives stay empty, the text stays in the notes), and one
\* occurring before it splits the text before the facilitation marker into
\* description and objectives.
C25_ObjectivesOnlyBeforeMarker ==
    (extracted # <<>> /\ ~NoMarker(text, facilitation_patterns)) =>
        \E p \in 1..Len(text) :
            /\ text[p] = C10_Marker
            /\ \A q \in 1..(p - 1) : text[q] # C10_Marker
            /\ LET before == Strip(SubSeq(text, 1, p - 1))
                   notes == Strip(SubSeq(text, p + 1, Len(text)))
               IN  notes # <<>> =>
                     /\ extracted[1].facilitation_notes = notes
                     /\ NoMarker(before, learning_patterns) =>
                           /\ extracted[1].learning_objectives = <<>>
                           /\ extracted[1].clean_description = before
                     /\ ~NoMarker(before, learning_patterns) =>
                           \E q \in 1..Len(before) :
                               /\ before[q] \in Range(learning_patterns)
                               /\ extracted[1].clean_description
                                     = Strip(SubSeq(before, 1, q - 1))
                               /\ extracted[1].learning_objectives
                                     = Strip(SubSeq(before, q + 1, Len(before)))

\* a learning-objective marker after the facilitation marker stayed in the notes
C25_Witness ==
    /\ extracted # <<>>
    /\ text = <<"Work", "Facilitation notes:", "Learning Objective:">>
    /\ extracted[1].learning_objectives = <<>>
    /\ extracted[1].facilitation_notes = <<"Learning Objective:">>
    /\ extracted[1].clean_description = <<"Work">>

\* C26: every footer number n printed during a full build satisfies
\* 1 <= n <= the closing slide's number, and only the closing slide prints that
\* maximum; the slide_count_offset of the activities, assessment and facilitation
\* sections is never negative.
C26_FootersWithinClosing ==
    \A b \in Builds :
        pc[b] = "done" =>
            LET closing == Deck(b)[Len(Deck(b))].num IN
            /\ \A n \in 1..(Len(Deck(b)) - 1) :
                   Deck(b)[n].has_footer =>
                       /\ 1 <= Deck(b)[n].num
                       /\ Deck(b)[n].num < closing
            /\ activities_offset(content[b]) >= 0
            /\ assessment_offset(content[b]) >= 0
            /\ facilitation_offset(content[b]) >= 0

\* a finished deck whose facilitation summary overflowed: its first slide prints
\* total_slides - 1, one below the counter's total
C26_Witness ==
    /\ pc[1] = "done"
    /\ Len(OfKind(1, {"facilitation"})) = 2
    /\ OfKind(1, {"facilitation"})[1].num + 2 = Deck(1)[Len(Deck(1))].num

\* the rendered slides of the content, activity, quiz, discussion and readings
\* sections, in deck order
C27_Numbered(b) ==
    OfKind(b, {"content", "activity_main", "activity_materials", "quiz_question",
               "quiz_answer", "discussion_question", "discussion_guidance", "readings"})

\* C27: in a finished deck the footer numbers of the content, activity, quiz,
\* discussion and further-readings slides, read in deck order, are consecutive
\* integers, whichever of these sections are empty.
C27_ConsecutiveRun ==
    \A b \in Builds :
        pc[b] = "done" =>
            \A i \in 1..(Len(C27_Numbered(b)) - 1) :
                C27_Numbered(b)[i + 1].num = C27_Numbered(b)[i].num + 1

\* a finished deck with a rendered content slide and a skipped one, activity
\* slides and a readings slide, the quiz and discussion sections between them empty
C27_Witness ==
    /\ pc[1] = "done"
    /\ Len(content[1].slides) = 2
    /\ Len(OfKind(1, {"activity_main"})) >= 1
    /\ OfKind(1, {"quiz_question"}) = <<>>
    /\ OfKind(1, {"discussion_question"}) = <<>>
    /\ Len(OfKind(1, {"readings"})) >= 1

\* C28: no two slides of a finished deck carry the same printed footer number.
C28_FooterNumbersDistinct ==
    \A b \in Builds :
        pc[b] = "done" =>
            \A i, j \in 1..Len(Deck(b)) :
                (i < j /\ Deck(b)[i].has_footer /\ Deck(b)[j].has_footer)
                    => Deck(b)[i].num # Deck(b)[j].num

\* the bodies (section headers and items) of a sequence of agenda slides
C30_Bodies(slides) == [i \in 1..Len(slides) |-> slides[i].body]

\* C30: for every lesson content the agenda slides a build appended (the refactored
\* create_agenda_slide) are as many as the original generate_pptx.create_agenda_slide
\* emits, and hold the same section headers and items slide by slide.
C30_SameAgenda ==
    \A b \in Builds :
        pc[b] = "done" =>
            C30_Bodies(OfKind(b, {"agenda"}))
                = C30_Bodies(generate_pptx_create_agenda_slide(content[b]))

====
